---------------------------- MODULE Spec2Model ----------------------------
(***************************************************************************)
(* Weekly import report (streamlit_app.py): the calendar window, the row   *)
(* classifier, the table filter, the report composer and the upload        *)
(* branch that drives them.                                                *)
(*                                                                         *)
(* Text is a sequence of one-character strings, so that prefix tests,      *)
(* trimming, lower-casing, escaping and ordinal comparison are computed    *)
(* character by character.  A missing cell (pandas NaN) is NULL.  Calendar *)
(* dates are proleptic Gregorian ordinals (datetime.date.toordinal()).     *)
(***************************************************************************)
EXTENDS Integers, Sequences, FiniteSets, TLC

VARIABLES
    pc,             \* position in the script (or in the call sequence)
    uploaded_file,  \* the upload stream: header, data lines, read position
    ref_date,       \* the reference date handed to load_and_filter
    raw_df,         \* the table read from the upload
    df_filtered,    \* result of load_and_filter
    refiltered,     \* result of load_and_filter applied to df_filtered
    window,         \* result of previous_week_window
    messages,       \* result of build_messages
    outputs,        \* what the run has put on the page so far
    error           \* the exception that ended the run, or "none"

vars == <<pc, uploaded_file, ref_date, raw_df, df_filtered, refiltered,
          window, messages, outputs, error>>

---------------------------------------------------------------------------
(* Bounds *)

MaxRows == 2        \* data rows of an input table
RefSpan == 70       \* number of consecutive reference dates of SpecWindow

---------------------------------------------------------------------------
(* Values *)

None == [none |-> TRUE]         \* Python None / not yet assigned
NULL == <<"<NaN>">>             \* a missing text cell (NaN)
NaN  == "NaN"                   \* a missing value of a derived column

Monday0 == 739446               \* date(2025, 7, 14).toordinal(), a Monday

---------------------------------------------------------------------------
(* CONFIG *)

AndreaSergi       == <<"A","n","d","r","e","a"," ","S","e","r","g","i">>
EnricoRadaelli    == <<"E","n","r","i","c","o"," ","R","a","d","a","e","l","l","i">>
AlessiaPellegrino == <<"A","l","e","s","s","i","a"," ","P","e","l","l","e","g","r","i","n","o">>
AndreaPedroli     == <<"A","n","d","r","e","a"," ","P","e","d","r","o","l","i">>

ALLOWED_IMPORTERS ==
    {AndreaSergi, EnricoRadaelli, AlessiaPellegrino, AndreaPedroli}

BUSINESS_LINE_MAP ==
    (<<"i","n","d","i","v","i","d","u","a","l","s">> :> "Individual") @@
    (<<"g","p">> :> "Individual") @@
    (<<"g","p"," ","g","r","u","p","p","i">> :> "Facility") @@
    (<<"g","i","p","o">> :> "Facility") @@
    (<<"d","p"," ","p","h","o","n","e">> :> "Facility") @@
    (<<"c","l","i","n","i","c"," ","a","g","e","n","d","a">> :> "Facility")

\* the alias map with one allow-listed name left out
IMPORTER_SHORT_NoPedroli ==
    (AlessiaPellegrino :> "Alessia") @@
    (AndreaSergi :> "Andrea") @@
    (EnricoRadaelli :> "Enrico")

IMPORTER_SHORT ==
    (AlessiaPellegrino :> "Alessia") @@
    (AndreaSergi :> "Andrea") @@
    (EnricoRadaelli :> "Enrico") @@
    (AndreaPedroli :> "Pedro")

KEEP_COLS ==
    <<"Url", "Ticket Name", "Importer", "Import Type", "Business Line",
      "Close Date">>

Aliases == <<"Alessia", "Andrea", "Enrico", "Pedro">>

---------------------------------------------------------------------------
(* Text primitives (Python str) *)

Range(s) == {s[i] : i \in DOMAIN s}

Whitespace == {" ", "\t", "\n"}

Upper == <<"A","B","C","D","E","F","G","H","I","J","K","L","M",
           "N","O","P","Q","R","S","T","U","V","W","X","Y","Z">>
Lower == <<"a","b","c","d","e","f","g","h","i","j","k","l","m",
           "n","o","p","q","r","s","t","u","v","w","x","y","z">>

\* str.lower() of one character
LowerChar(c) ==
    IF c \in Range(Upper)
    THEN Lower[CHOOSE i \in DOMAIN Upper : Upper[i] = c]
    ELSE c

StrLower(s) == [i \in DOMAIN s |-> LowerChar(s[i])]

\* str.strip(): drop leading and trailing whitespace
StrStrip(s) ==
    LET keep == {i \in DOMAIN s : s[i] \notin Whitespace}
    IN  IF keep = {} THEN <<>>
        ELSE LET lo == CHOOSE i \in keep : \A j \in keep : i <= j
                 hi == CHOOSE i \in keep : \A j \in keep : j <= i
             IN  SubSeq(s, lo, hi)

\* str.startswith(prefix)
StartsWith(s, prefix) ==
    /\ Len(prefix) <= Len(s)
    /\ SubSeq(s, 1, Len(prefix)) = prefix

\* str(x) of a cell: NaN prints as "nan"
Str(x) == IF x = NULL THEN <<"n","a","n">> ELSE x

\* ord() of the characters that occur in ticket names and urls
Ord(c) ==
    IF c \in Range(Upper)
    THEN 64 + (CHOOSE i \in DOMAIN Upper : Upper[i] = c)
    ELSE IF c \in Range(Lower)
    THEN 96 + (CHOOSE i \in DOMAIN Lower : Lower[i] = c)
    ELSE IF c = " " THEN 32
    ELSE IF c = "&" THEN 38
    ELSE IF c = "<" THEN 60
    ELSE IF c = "1" THEN 49
    ELSE IF c = "2" THEN 50
    ELSE 47

\* s <= t in Python's ordering of str (by code point, a prefix first)
StrLeq(s, t) ==
    LET diff == {i \in 1..Len(s) : i > Len(t) \/ s[i] # t[i]}
    IN  IF diff = {} THEN TRUE
        ELSE LET k == CHOOSE i \in diff : \A j \in diff : i <= j
             IN  k <= Len(t) /\ Ord(s[k]) < Ord(t[k])

\* html.escape of one character (quote=True)
EscapeChar(c) ==
    IF c = "&" THEN <<"&","a","m","p",";">>
    ELSE IF c = "<" THEN <<"&","l","t",";">>
    ELSE IF c = ">" THEN <<"&","g","t",";">>
    ELSE IF c = "\"" THEN <<"&","q","u","o","t",";">>
    ELSE IF c = "'" THEN <<"&","#","x","2","7",";">>
    ELSE <<c>>

RECURSIVE HtmlEscape(_)
HtmlEscape(s) ==
    IF s = <<>> THEN <<>> ELSE EscapeChar(Head(s)) \o HtmlEscape(Tail(s))

---------------------------------------------------------------------------
(* Calendar Window Resolver *)

\* datetime.date.weekday(): Monday is 0
Weekday(d) == (d + 6) % 7

\* date + relativedelta(weekday=wd(nth)), nth # 0
RelativedeltaWeekday(d, wd, nth) ==
    LET absn     == IF nth < 0 THEN 0 - nth ELSE nth
        jumpdays == (absn - 1) * 7
    IN  IF nth > 0
        THEN d + (jumpdays + ((7 - Weekday(d) + wd) % 7))
        ELSE d - (jumpdays + ((Weekday(d) - wd) % 7))

\* MO(+1), the Monday on or after the date, in place of MO(-1)
previous_week_window_NextMonday(reference_date) ==
    LET this_week_monday == RelativedeltaWeekday(reference_date, 0, 1)
        prev_monday      == this_week_monday - 7
        prev_sunday      == prev_monday + 6
    IN  <<prev_monday, prev_sunday>>

previous_week_window(reference_date) ==
    LET this_week_monday == RelativedeltaWeekday(reference_date, 0, -1)
        prev_monday      == this_week_monday - 7
        prev_sunday      == prev_monday + 6
    IN  <<prev_monday, prev_sunday>>

---------------------------------------------------------------------------
(* Row Classifier *)

\* BUSINESS_LINE_MAP.get(key) without the default
business_line_cat_NoDefault(raw_bl) ==
    LET key == StrLower(StrStrip(Str(raw_bl)))
    IN  IF key \in DOMAIN BUSINESS_LINE_MAP THEN BUSINESS_LINE_MAP[key]
        ELSE NaN

business_line_cat(raw_bl) ==
    LET key == StrLower(StrStrip(Str(raw_bl)))
    IN  IF key \in DOMAIN BUSINESS_LINE_MAP THEN BUSINESS_LINE_MAP[key]
        ELSE "Individual"

\* Series.map(IMPORTER_SHORT): a key the dict lacks maps to NaN
MapImporterShort(name) ==
    IF name \in DOMAIN IMPORTER_SHORT THEN IMPORTER_SHORT[name] ELSE NaN

---------------------------------------------------------------------------
(* Tables (pandas DataFrame)                                               *)
(*                                                                         *)
(* A frame has a set of column names, a sequence of rows (each a function  *)
(* from the column names to cells) and the dtype of every column.          *)

\* a missing cell: Close Date cells are records (see below), the others text
IsNa(c, cell) == IF c = "Close Date" THEN cell.kind = "nan" ELSE cell = NULL

\* dtype pandas.read_csv infers for a column of text cells: a column whose
\* every cell is empty holds only NaN and becomes float64; a column of a
\* table without rows, and a column with text in it, is object
InferDtype(rows, c) ==
    IF rows # <<>> /\ \A i \in DOMAIN rows : IsNa(c, rows[i][c])
    THEN "float64" ELSE "object"

Frame(columns, rows) ==
    [columns |-> columns,
     rows    |-> rows,
     dtypes  |-> [c \in columns |-> InferDtype(rows, c)]]

\* df[mask]: the rows whose mask entry is TRUE, in their order
BooleanIndex(rows, mask) ==
    LET idx    == {i \in DOMAIN rows : mask[i]}
        n      == Cardinality(idx)
        nth(k) == CHOOSE i \in idx : Cardinality({j \in idx : j < i}) = k - 1
    IN  [k \in 1..n |-> rows[nth(k)]]

\* Series.value_counts().get(v, 0)
ValueCount(rows, c, v) == Cardinality({i \in DOMAIN rows : rows[i][c] = v})

---------------------------------------------------------------------------
(* Close Date cells                                                        *)
(*                                                                         *)
(* kind "fmt":  text laid out as CLOSE_FMT for calendar day `day`; nnbsp   *)
(*              tells whether U+202F stands before the meridiem marker     *)
(* kind "iso":  text "YYYY-MM-DD", what str() of a datetime.date gives     *)
(* kind "junk": any other text ("nan" and "NaT" included)                  *)
(* kind "nan":  a missing cell                                             *)
(* kind "date": a datetime.date;   kind "nat": NaT                         *)

DateCell(kind, day, nnbsp) == [kind |-> kind, day |-> day, nnbsp |-> nnbsp]

FmtText(day)     == DateCell("fmt", day, FALSE)
FmtTextNnbsp(day) == DateCell("fmt", day, TRUE)
IsoText(day)     == DateCell("iso", day, FALSE)
JunkText         == DateCell("junk", 0, FALSE)
NanCell          == DateCell("nan", 0, FALSE)
DateObj(day)     == DateCell("date", day, FALSE)
NaT              == DateCell("nat", 0, FALSE)

\* Series.astype(str)
AsTypeStr(c) ==
    IF c.kind = "date" THEN IsoText(c.day)
    ELSE IF c.kind \in {"nan", "nat"} THEN JunkText
    ELSE c

\* .str.replace(U+202F, " ", regex=False)
ReplaceNnbsp(c) == [c EXCEPT !.nnbsp = FALSE]

\* a parser that also accepts the ISO layout (to_datetime without format=)
ToDate_AcceptIso(c) ==
    IF c.kind \in {"fmt", "iso"} /\ ~c.nnbsp THEN DateObj(c.day) ELSE NaT

\* pd.to_datetime(format=CLOSE_FMT, errors="coerce") followed by .dt.date
ToDate(c) ==
    IF c.kind = "fmt" /\ ~c.nnbsp THEN DateObj(c.day) ELSE NaT

ParseCloseDate(c) == ToDate(ReplaceNnbsp(AsTypeStr(c)))

\* "not outside the range": a NaT, which compares False, passes
Between_NotOutside(c, left, right) ==
    ~(c.kind = "date" /\ (c.day < left \/ c.day > right))

\* Series.between(left, right, inclusive="both"): NaT compares False
Between(c, left, right) ==
    c.kind = "date" /\ left <= c.day /\ c.day <= right

---------------------------------------------------------------------------
(* Table Filter *)

Complete      == <<"C","o","m","p","l","e","t","e">>
NoImportation == <<"N","o"," ","I","m","p","o","r","t","a","t","i","o","n">>

\* .str.startswith(("Complete", "No Importation"), na=False) on one cell
MaskType(cell) ==
    cell # NULL /\ (StartsWith(cell, Complete) \/ StartsWith(cell, NoImportation))

\* .isin(ALLOWED_IMPORTERS) on one cell
MaskImp(cell) == cell \in ALLOWED_IMPORTERS

Raise(e) == [err |-> e, df |-> None]
Return(df) == [err |-> "none", df |-> df]

\* df.reindex(columns=KEEP_COLS) in place of df[KEEP_COLS]: a missing
\* column is filled with NaN
SelectKeepCols_Reindex(df) ==
    Return(Frame(Range(KEEP_COLS),
                 [i \in DOMAIN df.rows |->
                    [c \in Range(KEEP_COLS) |->
                       IF c \in df.columns THEN df.rows[i][c]
                       ELSE IF c = "Close Date" THEN NanCell ELSE NULL]]))

\* df[KEEP_COLS].copy(): KeyError when a column is missing
SelectKeepCols(df) ==
    IF ~(Range(KEEP_COLS) \subseteq df.columns)
    THEN Raise("KeyError")
    ELSE Return([columns |-> Range(KEEP_COLS),
                 rows    |-> [i \in DOMAIN df.rows |->
                                [c \in Range(KEEP_COLS) |-> df.rows[i][c]]],
                 dtypes  |-> [c \in Range(KEEP_COLS) |-> df.dtypes[c]]])

OutColumns == Range(KEEP_COLS) \cup {"BL_CAT", "ImporterShort"}

load_and_filter(df, reference_date) ==
    LET kept == SelectKeepCols(df)
    IN
    IF kept.err # "none" THEN kept
    ELSE
    LET parsed == [i \in DOMAIN kept.df.rows |->
                     [kept.df.rows[i] EXCEPT !["Close Date"] = ParseCloseDate(@)]]
        w      == previous_week_window(reference_date)
        mask_period == [i \in DOMAIN parsed |->
                          Between(parsed[i]["Close Date"], w[1], w[2])]
        mask_type   == [i \in DOMAIN parsed |-> MaskType(parsed[i]["Import Type"])]
        mask_imp    == [i \in DOMAIN parsed |-> MaskImp(parsed[i]["Importer"])]
        sel    == BooleanIndex(parsed,
                     [i \in DOMAIN parsed |->
                        mask_period[i] /\ mask_type[i] /\ mask_imp[i]])
        out    == [i \in DOMAIN sel |->
                     sel[i] @@
                     ("BL_CAT" :> business_line_cat(sel[i]["Business Line"])) @@
                     ("ImporterShort" :> MapImporterShort(sel[i]["Importer"]))]
    IN  IF kept.df.dtypes["Import Type"] # "object"
        THEN Raise("AttributeError")    \* the .str accessor on a float64 column
        ELSE Return([columns |-> OutColumns,
                     rows    |-> out,
                     dtypes  |-> [c \in OutColumns |-> "object"]])

---------------------------------------------------------------------------
(* Report Composer *)

\* df[df["BL_CAT"] == "Facility"][["Ticket Name", "Url"]]
FacilityPairs(rows) ==
    LET fac == BooleanIndex(rows, [i \in DOMAIN rows |-> rows[i]["BL_CAT"] = "Facility"])
    IN  [i \in DOMAIN fac |->
           [c \in {"Ticket Name", "Url"} |-> fac[i][c]]]

\* .dropna(): drop the rows with a missing cell
DropNa(rows) ==
    BooleanIndex(rows, [i \in DOMAIN rows |->
                          rows[i]["Ticket Name"] # NULL /\ rows[i]["Url"] # NULL])

\* keep="last"
DropDuplicates_KeepLast(rows) ==
    BooleanIndex(rows, [i \in DOMAIN rows |->
                          \A j \in DOMAIN rows : j > i => rows[j]["Url"] # rows[i]["Url"]])

\* .drop_duplicates(subset="Url"): keep="first"
DropDuplicates(rows) ==
    BooleanIndex(rows, [i \in DOMAIN rows |->
                          \A j \in 1..(i - 1) : rows[j]["Url"] # rows[i]["Url"]])

Permute(rows, p) == [k \in DOMAIN rows |-> rows[p[k]]]

Bijections(n) == {p \in [1..n -> 1..n] : \A i, j \in 1..n : p[i] = p[j] => i = j}

\* .sort_values("Ticket Name"): the default sort is not stable, so every
\* ascending arrangement of the rows is a possible result
SortValues(rows) ==
    {Permute(rows, p) : p \in
        {q \in Bijections(Len(rows)) :
            \A k \in 1..(Len(rows) - 1) :
                StrLeq(rows[q[k]]["Ticket Name"], rows[q[k + 1]]["Ticket Name"])}}

\* the possible values of fac_df
FacDf(df) == SortValues(DropDuplicates(DropNa(FacilityPairs(df.rows))))

PlaceholderMd   == "_Nessuna facility questa settimana_"
PlaceholderHtml == "<em>Nessuna facility questa settimana</em>"

\* the dynamic groups of the two templates
build_messages(df, fac_df) ==
    LET facility   == ValueCount(df.rows, "BL_CAT", "Facility")
        individual == ValueCount(df.rows, "BL_CAT", "Individual")
        tot_total  == Len(df.rows)
        imp_counts == [a \in Range(Aliases) |-> ValueCount(df.rows, "ImporterShort", a)]
        links_md   == IF fac_df = <<>>
                      THEN [text |-> PlaceholderMd, items |-> <<>>]
                      ELSE [text |-> "",
                            items |-> [i \in DOMAIN fac_df |->
                                <<fac_df[i]["Ticket Name"], fac_df[i]["Url"]>>]]
        links_html == IF fac_df = <<>>
                      THEN [text |-> PlaceholderHtml, items |-> <<>>]
                      ELSE [text |-> "",
                            items |-> [i \in DOMAIN fac_df |->
                                <<HtmlEscape(fac_df[i]["Ticket Name"]),
                                  HtmlEscape(fac_df[i]["Url"])>>]]
        counts     == [tot_total |-> tot_total, facility |-> facility,
                       individual |-> individual, imp_counts |-> imp_counts]
    IN  [fac_df |-> fac_df,
         plain  |-> [counts |-> counts, links |-> links_md],
         html   |-> [counts |-> counts, links |-> links_html]]

---------------------------------------------------------------------------
(* The upload stream and pandas.read_csv                                   *)
(*                                                                         *)
(* lines[1] is the header line, the others are data lines; `bad` is the    *)
(* number of the first line that holds a byte which is not valid UTF-8 (0  *)
(* when every byte is valid); `pos` counts the lines the reads have        *)
(* consumed.  A line taken from the middle of the file as the header gives *)
(* the table its cell texts as column names.                               *)

File(header, lines, bad) ==
    [header |-> header, lines |-> lines, bad |-> bad, pos |-> 0]

NLines(f) == 1 + Len(f.lines)

MisreadColumns == {"<cell text>"}

\* the table of the lines from position p on
TableFrom(f, p) ==
    IF p = 0
    THEN Frame(f.header, f.lines)
    ELSE Frame(MisreadColumns,
               [i \in 1..(NLines(f) - p - 1) |-> [c \in MisreadColumns |-> NULL]])

\* the positions at which a read that fails on line `bad` can leave the
\* stream: the decoder has consumed that line, and whatever it read ahead
PosAfterFailure(f) == {p \in 1..NLines(f) : p >= f.bad}

\* pd.read_csv(uploaded_file, encoding=...): reads from the current position
\* to the end; "utf-8" fails on an invalid byte, "latin1" decodes any byte
ReadCsvOutcomes(f, encoding) ==
    IF encoding = "utf-8" /\ f.bad > f.pos
    THEN {[err |-> "UnicodeDecodeError", df |-> None, pos |-> p] : p \in PosAfterFailure(f)}
    ELSE IF f.pos >= NLines(f)
    THEN {[err |-> "EmptyDataError", df |-> None, pos |-> f.pos]}
    ELSE {[err |-> "none", df |-> TableFrom(f, f.pos), pos |-> NLines(f)]}

---------------------------------------------------------------------------
(* Inputs *)

CompleteAuto  == Complete \o <<" ","-"," ","A","u","t","o">>
LowerComplete == <<"c","o","m","p","l","e","t","e">>
SomeoneElse   == <<"S","o","m","e","o","n","e"," ","E","l","s","e">>
GipoPadded    == <<" ","G","I","P","O"," ">>
Gp            == <<"g","p">>
UnknownThing  == <<"u","n","k","n","o","w","n","-","t","h","i","n","g">>
Url1          == <<"u","1">>
Url2          == <<"u","2","&">>
TicketB       == <<"B","<">>
TicketLowerA  == <<"a">>

MkRow(url, ticket, importer, import_type, business_line, close_date) ==
    ("Url" :> url) @@ ("Ticket Name" :> ticket) @@ ("Importer" :> importer) @@
    ("Import Type" :> import_type) @@ ("Business Line" :> business_line) @@
    ("Close Date" :> close_date)

\* sequences of at most n elements of S
SeqUpTo(S, n) == UNION {[1..k -> S] : k \in 0..n}

\* reference dates: a Wednesday, and the Monday of the week after
RefDates == {Monday0 + 2, Monday0 + 7}

\* rows that differ in what the three filter predicates read
FilterCloseDates ==
    {FmtText(Monday0 - 8), FmtText(Monday0 - 7), FmtTextNnbsp(Monday0 - 1),
     FmtText(Monday0), JunkText, NanCell}

FilterRows ==
    {MkRow(Url1, TicketB, imp, ty, Gp, cd) :
        imp \in {AndreaSergi, SomeoneElse},
        ty  \in {CompleteAuto, NoImportation, LowerComplete, NULL},
        cd  \in FilterCloseDates}

\* rows that differ in what the report reads
ReportRows ==
    {MkRow(Url1, TicketB, imp, CompleteAuto, bl, FmtText(Monday0 - 7)) :
        imp \in ALLOWED_IMPORTERS \cup {SomeoneElse},
        bl  \in {GipoPadded, Gp, NULL}}
    \cup
    {MkRow(u, t, AndreaSergi, NoImportation, bl, FmtText(Monday0 - 1)) :
        u  \in {Url1, Url2, NULL},
        t  \in {TicketB, TicketLowerA, NULL},
        bl \in {GipoPadded, UnknownThing}}

\* the upload: headers with a column too many, exact, and one column short
AppHeaders ==
    {Range(KEEP_COLS) \cup {"Owner"}, Range(KEEP_COLS)} \cup
    {Range(KEEP_COLS) \ {c} : c \in Range(KEEP_COLS)}

AppRows ==
    {MkRow(Url1, TicketB, AndreaSergi, CompleteAuto, GipoPadded, FmtText(Monday0 - 7)),
     MkRow(Url2, TicketLowerA, SomeoneElse, CompleteAuto, Gp, FmtText(Monday0 - 7)),
     MkRow(Url2, TicketLowerA, AndreaPedroli, NULL, Gp, FmtText(Monday0 - 7))}

\* a data line under a header: the cells of the header's columns
Line(header, row) ==
    [c \in header |-> IF c \in DOMAIN row THEN row[c] ELSE <<"x">>]

AppFiles ==
    {f \in {File(h, [i \in DOMAIN rows |-> Line(h, rows[i])], bad) :
                h \in AppHeaders, rows \in SeqUpTo(AppRows, MaxRows),
                bad \in 0..(MaxRows + 1)} :
        f.bad <= NLines(f)}

---------------------------------------------------------------------------
(* The upload branch of the script *)

Abort(e) ==
    /\ pc' = "aborted"
    /\ error' = e

\* raw_df = pd.read_csv(uploaded_file)
ReadCsv ==
    /\ pc = "read"
    /\ \E o \in ReadCsvOutcomes(uploaded_file, "utf-8") :
        /\ uploaded_file' = [uploaded_file EXCEPT !.pos = o.pos]
        /\ IF o.err = "none"
           THEN pc' = "filter" /\ raw_df' = o.df /\ error' = error
           ELSE IF o.err = "UnicodeDecodeError"
           THEN pc' = "retry" /\ UNCHANGED <<raw_df, error>>
           ELSE Abort(o.err) /\ UNCHANGED raw_df
    /\ UNCHANGED <<ref_date, df_filtered, refiltered, window, messages, outputs>>

\* except UnicodeDecodeError: raw_df = pd.read_csv(uploaded_file, encoding="latin1")
ReadCsvLatin1 ==
    /\ pc = "retry"
    /\ \E o \in ReadCsvOutcomes(uploaded_file, "latin1") :
        /\ uploaded_file' = [uploaded_file EXCEPT !.pos = o.pos]
        /\ IF o.err = "none"
           THEN pc' = "filter" /\ raw_df' = o.df /\ error' = error
           ELSE Abort(o.err) /\ UNCHANGED raw_df
    /\ UNCHANGED <<ref_date, df_filtered, refiltered, window, messages, outputs>>

\* df_filtered = load_and_filter(raw_df, reference_date=ref_date)
LoadAndFilter ==
    /\ pc = "filter"
    /\ LET r == load_and_filter(raw_df, ref_date)
       IN  IF r.err = "none"
           THEN pc' = "kpi" /\ df_filtered' = r.df /\ error' = error
           ELSE Abort(r.err) /\ UNCHANGED df_filtered
    /\ UNCHANGED <<uploaded_file, ref_date, raw_df, refiltered, window, messages, outputs>>

\* the KPI cards and st.dataframe(df_filtered)
ShowKpi ==
    /\ pc = "kpi"
    /\ outputs' = outputs \cup {"kpi", "dataframe"}
    /\ pc' = "messages"
    /\ UNCHANGED <<uploaded_file, ref_date, raw_df, df_filtered, refiltered, window,
                   messages, error>>

\* plain_msg, html_msg = build_messages(df_filtered), and the two text areas
BuildMessages ==
    /\ pc = "messages"
    /\ \E fac_df \in FacDf(df_filtered) :
        messages' = build_messages(df_filtered, fac_df)
    /\ outputs' = outputs \cup {"plain_msg", "html_msg"}
    /\ pc' = "download"
    /\ UNCHANGED <<uploaded_file, ref_date, raw_df, df_filtered, refiltered, window, error>>

\* the two download buttons
Downloads ==
    /\ pc = "download"
    /\ outputs' = outputs \cup {"import_filtered.xlsx", "report_message.html"}
    /\ pc' = "done"
    /\ UNCHANGED <<uploaded_file, ref_date, raw_df, df_filtered, refiltered, window,
                   messages, error>>

\* load_and_filter called on its own result
Refilter ==
    /\ pc = "kpi"
    /\ refiltered' = load_and_filter(df_filtered, ref_date)
    /\ pc' = "refiltered"
    /\ UNCHANGED <<uploaded_file, ref_date, raw_df, df_filtered, window, messages,
                   outputs, error>>

\* previous_week_window(ref_date)
PreviousWeekWindow ==
    /\ pc = "window"
    /\ window' = previous_week_window(ref_date)
    /\ pc' = "window_done"
    /\ UNCHANGED <<uploaded_file, ref_date, raw_df, df_filtered, refiltered, messages,
                   outputs, error>>

---------------------------------------------------------------------------
(* Specifications *)

InitCommon ==
    /\ df_filtered = None
    /\ refiltered = None
    /\ window = None
    /\ messages = None
    /\ outputs = {}
    /\ error = "none"

\* the script, from the upload on
Init ==
    /\ pc = "read"
    /\ uploaded_file \in AppFiles
    /\ ref_date \in RefDates
    /\ raw_df = None
    /\ InitCommon

Next ==
    \/ ReadCsv
    \/ ReadCsvLatin1
    \/ LoadAndFilter
    \/ ShowKpi
    \/ BuildMessages
    \/ Downloads

Spec == Init /\ [][Next]_vars

\* load_and_filter on the tables of FilterRows, and on its own result
InitFilter ==
    /\ pc = "filter"
    /\ uploaded_file = None
    /\ ref_date \in RefDates
    /\ raw_df \in {Frame(Range(KEEP_COLS), rows) : rows \in SeqUpTo(FilterRows, MaxRows)}
    /\ InitCommon

NextFilter ==
    \/ LoadAndFilter
    \/ Refilter

SpecFilter == InitFilter /\ [][NextFilter]_vars

\* load_and_filter and build_messages on the tables of ReportRows
InitReport ==
    /\ pc = "filter"
    /\ uploaded_file = None
    /\ ref_date \in RefDates
    /\ raw_df \in {Frame(Range(KEEP_COLS), rows) : rows \in SeqUpTo(ReportRows, MaxRows)}
    /\ InitCommon

NextReport ==
    \/ LoadAndFilter
    \/ ShowKpi
    \/ BuildMessages

SpecReport == InitReport /\ [][NextReport]_vars

\* previous_week_window on RefSpan consecutive reference dates
InitWindow ==
    /\ pc = "window"
    /\ uploaded_file = None
    /\ ref_date \in (Monday0 - 30)..(Monday0 - 30 + RefSpan - 1)
    /\ raw_df = None
    /\ InitCommon

NextWindow == PreviousWeekWindow

SpecWindow == InitWindow /\ [][NextWindow]_vars

---------------------------------------------------------------------------
(* Properties *)

\* the Monday on or before d, counted from a known Monday
MondayOnOrBefore(d) ==
    CHOOSE m \in (d - 6)..d : (m - Monday0 + 7000) % 7 = 0

HasPrefix(s, prefix) == \E k \in 0..Len(s) : SubSeq(s, 1, k) = prefix

\* the three predicates, read off a raw row
InPreviousWeek(cell, ref) ==
    /\ cell.kind = "fmt"
    /\ MondayOnOrBefore(ref) - 7 <= cell.day
    /\ cell.day <= MondayOnOrBefore(ref) - 1

Survives(row, ref) ==
    /\ InPreviousWeek(row["Close Date"], ref)
    /\ row["Import Type"] # NULL
    /\ HasPrefix(row["Import Type"], Complete) \/ HasPrefix(row["Import Type"], NoImportation)
    /\ row["Importer"] \in {AndreaSergi, EnricoRadaelli, AlessiaPellegrino, AndreaPedroli}

\* output row o is input row r with its Close Date as a calendar date
SameRecord(r, o) ==
    /\ \A c \in Range(KEEP_COLS) \ {"Close Date"} : o[c] = r[c]
    /\ o["Close Date"] = DateObj(r["Close Date"].day)

IsFilteredSubsequence(in, out, ref) ==
    LET surv == {i \in DOMAIN in : Survives(in[i], ref)}
    IN  /\ Len(out) = Cardinality(surv)
        /\ \E idx \in [DOMAIN out -> DOMAIN in] :
            /\ \A j, k \in DOMAIN out : j < k => idx[j] < idx[k]
            /\ {idx[k] : k \in DOMAIN out} = surv
            /\ \A k \in DOMAIN out : SameRecord(in[idx[k]], out[k])

AfterFilter == pc \in {"kpi", "messages", "download", "done", "refiltered", "aborted"}

\* C1: for every raw table with the six columns and every reference date,
\* load_and_filter returns exactly the rows that satisfy the three
\* predicates, in their original relative order.
C1_ExactSubsequence ==
    (AfterFilter /\ raw_df # None /\ Range(KEEP_COLS) \subseteq raw_df.columns) =>
        /\ error = "none"
        /\ IsFilteredSubsequence(raw_df.rows, df_filtered.rows, ref_date)

\* C2: applying load_and_filter to its own output with the same reference
\* date yields the same set of rows as the first application.
C2_Idempotent ==
    pc = "refiltered" =>
        /\ refiltered.err = "none"
        /\ Range(refiltered.df.rows) = Range(df_filtered.rows)

\* C2 as amended: the second application does not fail and returns a table
\* without rows, because the calendar dates of the first output no longer
\* match the textual Close Date format.
C2_RefilterIsEmpty ==
    pc = "refiltered" =>
        /\ refiltered.err = "none"
        /\ refiltered.df.rows = <<>>
        /\ \A i \in DOMAIN df_filtered.rows :
              ParseCloseDate(df_filtered.rows[i]["Close Date"]) = NaT

C2_Witness ==
    /\ pc = "refiltered"
    /\ Len(df_filtered.rows) = 2
    /\ refiltered.err = "none"

\* C3: previous_week_window(d) = (start, end) with start a Monday, start the
\* Monday on or before d minus 7 days and end = start + 6; every date of d's
\* Monday-Sunday week has the same window, and d is not inside its window.
C3_PreviousWeek ==
    pc = "window_done" =>
        LET start == window[1]
            end   == window[2]
            mon   == MondayOnOrBefore(ref_date)
        IN  /\ (start - Monday0 + 7000) % 7 = 0
            /\ start = mon - 7
            /\ end = start + 6
            /\ \A d \in mon..(mon + 6) : previous_week_window(d) = window
            /\ ~(start <= ref_date /\ ref_date <= end)

\* the two examples: Wednesday 2025-07-16 and Monday 2025-07-14
C3_Witness ==
    /\ pc = "window_done"
    /\ ref_date = Monday0 + 2
    /\ window = <<Monday0 - 7, Monday0 - 1>>
    /\ previous_week_window(Monday0) = window

\* C4: in the report of a filtered table the Facility and the Individual
\* count sum to the total, every row's category being one of the two.
C4_CategoriesSumToTotal ==
    pc = "download" =>
        LET c == messages.plain.counts
        IN  /\ c.facility + c.individual = c.tot_total
            /\ c.tot_total = Len(df_filtered.rows)
            /\ messages.html.counts = c
            /\ \A i \in DOMAIN df_filtered.rows :
                  df_filtered.rows[i]["BL_CAT"] \in {"Facility", "Individual"}

C4_Witness ==
    /\ pc = "download"
    /\ \E i, j \in DOMAIN df_filtered.rows :
        /\ df_filtered.rows[i]["Business Line"] \in {NULL, UnknownThing}
        /\ df_filtered.rows[j]["BL_CAT"] = "Facility"

\* C5: in the report of a filtered table the four importer counts sum to the
\* total: every retained row has one of the four aliases, every allow-listed
\* name having an entry in the alias map.
C5_ImportersSumToTotal ==
    pc = "download" =>
        LET n == messages.plain.counts.imp_counts
        IN  /\ n["Alessia"] + n["Andrea"] + n["Enrico"] + n["Pedro"]
                 = messages.plain.counts.tot_total
            /\ messages.plain.counts.tot_total = Len(df_filtered.rows)
            /\ \A i \in DOMAIN df_filtered.rows :
                  df_filtered.rows[i]["ImporterShort"] \in Range(Aliases)
            /\ ALLOWED_IMPORTERS \subseteq DOMAIN IMPORTER_SHORT

C5_Witness ==
    /\ pc = "download"
    /\ \E i, j \in DOMAIN df_filtered.rows :
        /\ df_filtered.rows[i]["Importer"] = AndreaPedroli
        /\ df_filtered.rows[j]["Importer"] = AlessiaPellegrino

\* the rows a link may come from: Facility, with a ticket name and a url
Linkable(rows) ==
    {i \in DOMAIN rows :
        /\ rows[i]["BL_CAT"] = "Facility"
        /\ rows[i]["Ticket Name"] # NULL
        /\ rows[i]["Url"] # NULL}

\* C6: the facility link list holds only (Ticket Name, URL) pairs of Facility
\* rows with both fields present, no URL twice (the pair kept for a URL is
\* that of the first such row), in ascending order of Ticket Name.
C6_FacilityLinks ==
    pc = "download" =>
        LET rows  == df_filtered.rows
            links == messages.plain.links.items
        IN  /\ \A k \in DOMAIN links :
                 LET same == {i \in Linkable(rows) : rows[i]["Url"] = links[k][2]}
                 IN  /\ same # {}
                     /\ links[k][1] =
                          rows[CHOOSE i \in same : \A j \in same : i <= j]["Ticket Name"]
            /\ \A j, k \in DOMAIN links : j # k => links[j][2] # links[k][2]
            /\ \A k \in 1..(Len(links) - 1) : StrLeq(links[k][1], links[k + 1][1])

\* two Facility rows share a url, and the first has the greater ticket name
C6_Witness ==
    /\ pc = "download"
    /\ Len(df_filtered.rows) = 2
    /\ Linkable(df_filtered.rows) = {1, 2}
    /\ df_filtered.rows[1]["Url"] = df_filtered.rows[2]["Url"]
    /\ df_filtered.rows[1]["Ticket Name"] = TicketLowerA
    /\ df_filtered.rows[2]["Ticket Name"] = TicketB
    /\ Len(messages.plain.links.items) = 1

ZeroCounts(c) ==
    /\ c.tot_total = 0
    /\ c.facility = 0
    /\ c.individual = 0
    /\ \A a \in Range(Aliases) : c.imp_counts[a] = 0

\* C7: whenever no row survives filtering (a table without rows included),
\* load_and_filter succeeds with a zero-row table and build_messages reports
\* zero everywhere and the placeholder in both messages.
C7_EmptyReport ==
    (/\ AfterFilter
     /\ raw_df # None
     /\ Range(KEEP_COLS) \subseteq raw_df.columns
     /\ \A i \in DOMAIN raw_df.rows : ~Survives(raw_df.rows[i], ref_date)) =>
        /\ error = "none"
        /\ df_filtered.rows = <<>>
        /\ pc \in {"download", "done"} =>
              /\ ZeroCounts(messages.plain.counts)
              /\ ZeroCounts(messages.html.counts)
              /\ messages.plain.links = [text |-> PlaceholderMd, items |-> <<>>]
              /\ messages.html.links = [text |-> PlaceholderHtml, items |-> <<>>]

RemoveAt(s, i) == [k \in 1..(Len(s) - 1) |-> IF k < i THEN s[k] ELSE s[k + 1]]

\* the rows a call retains: none when it fails
Retained(r) == IF r.err = "none" THEN r.df.rows ELSE <<>>

\* C8: a row whose Close Date does not match the format does not make
\* load_and_filter fail (a failure does not depend on that text), is absent
\* from the output, and leaves the rows retained from the others unchanged.
C8_UnparseableDate ==
    pc \in {"kpi", "aborted"} =>
        \A i \in DOMAIN raw_df.rows :
            raw_df.rows[i]["Close Date"].kind # "fmt" =>
                LET got     == IF error = "none" THEN df_filtered.rows ELSE <<>>
                    without == Frame(raw_df.columns, RemoveAt(raw_df.rows, i))
                    fixed   == Frame(raw_df.columns,
                                     [raw_df.rows EXCEPT ![i]["Close Date"] =
                                          FmtText(ref_date - 7)])
                IN  /\ got = Retained(load_and_filter(without, ref_date))
                    /\ (error = "none") <=> (load_and_filter(fixed, ref_date).err = "none")
                    /\ \A k \in DOMAIN got : got[k]["Close Date"].kind = "date"

\* a junk date on a row that passes the other two predicates, next to a
\* row that is retained
C8_Witness ==
    /\ pc = "kpi"
    /\ Len(raw_df.rows) = 2
    /\ Len(df_filtered.rows) = 1
    /\ \E i \in DOMAIN raw_df.rows :
        /\ raw_df.rows[i]["Close Date"] = JunkText
        /\ raw_df.rows[i]["Import Type"] = CompleteAuto
        /\ raw_df.rows[i]["Importer"] = AndreaSergi

\* C9: when a required column is absent from the raw table, load_and_filter
\* fails before any filtering and the run ends without a filtered table, a
\* message or a download.
C9_MissingColumn ==
    (/\ pc \notin {"read", "retry"}
     /\ raw_df # None
     /\ ~(Range(KEEP_COLS) \subseteq raw_df.columns)) =>
        /\ pc \in {"filter", "aborted"}
        /\ pc = "aborted" => error = "KeyError"
        /\ df_filtered = None
        /\ messages = None
        /\ outputs = {}

C9_Witness ==
    /\ pc = "aborted"
    /\ error = "KeyError"
    /\ uploaded_file.bad = 0
    /\ raw_df.columns = Range(KEEP_COLS) \ {"Import Type"}
    /\ Len(raw_df.rows) = 2

\* C10: when the UTF-8 read fails, the retry with the fallback encoding
\* yields the table of the whole file, header row included, and the run
\* goes on with that table.
C10_RetryReadsWholeFile ==
    (uploaded_file.bad > 0 /\ pc \notin {"read", "retry"}) =>
        /\ raw_df = Frame(uploaded_file.header, uploaded_file.lines)
        /\ error \notin {"UnicodeDecodeError", "EmptyDataError"}

=============================================================================
